---- MODULE Spec2Model ----
(***************************************************************************)
(* Model of package configutil (configutil.go): NewConfig resolves a       *)
(* Config from functional options, an optional .env file and the process   *)
(* environment, then validates it.                                         *)
(*                                                                         *)
(* Strings are TLA+ strings, "" is the empty string.  A map[string]string  *)
(* is a function whose DOMAIN is the set of keys present.  A *Config is a  *)
(* set holding at most one Config record ({} is nil); an error is the      *)
(* sequence of messages of its %w chain (<<>> is nil).                     *)
(***************************************************************************)
EXTENDS Naturals, Sequences, FiniteSets, TLC

VARIABLES
    osEnv,      \* the process environment: variable name -> value, for the variables set
    fs,         \* the file system: path -> what godotenv.Read finds there
    opts,       \* the options the host passes to NewConfig
    result,     \* what the latest NewConfig call returned: [cfg, err]
    prev,       \* what the call before it returned
    calls       \* number of NewConfig calls made so far

vars == <<osEnv, fs, opts, result, prev, calls>>

----------------------------------------------------------------------------
(* Bounds of the explored inputs *)

MaxOpts == 2        \* overrides given for one field in one call
MaxCalls == 2       \* NewConfig calls in one run

----------------------------------------------------------------------------
(* Maps *)

EmptyMap == [x \in {} |-> ""]

Single(k, v) == [x \in {k} |-> v]

Merge(f, g) ==
    [x \in (DOMAIN f) \cup (DOMAIN g) |-> IF x \in DOMAIN f THEN f[x] ELSE g[x]]

----------------------------------------------------------------------------
(* type Config struct, and its zero value (c := &Config{}) *)

ZeroConfig ==
    [DatabaseURL |-> "", AuthServiceURL |-> "", Debug |-> FALSE, Port |-> "",
     EnvFile |-> "", GoogleClientID |-> "", GoogleClientSecret |-> ""]

(* type Option: an option is the name of its constructor and the argument
   captured by its closure (arg for a string, flag for a bool) *)
Opt(name, arg, flag) == [name |-> name, arg |-> arg, flag |-> flag]

WithDatabaseURL(url, c) ==
    IF url # "" THEN [c EXCEPT !.DatabaseURL = url] ELSE c

WithAuthServiceURL(url, c) ==
    IF url # "" THEN [c EXCEPT !.AuthServiceURL = url] ELSE c

WithDebug(debug, c) == [c EXCEPT !.Debug = debug]

(* WithPort without its guard: an empty argument clears the field *)
WithPortUnguarded(port, c) == [c EXCEPT !.Port = port]

WithPort(port, c) ==
    IF port # "" THEN [c EXCEPT !.Port = port] ELSE c

WithEnvFile(file, c) ==
    IF file # "" THEN [c EXCEPT !.EnvFile = file] ELSE c

WithGoogleClientID(clientID, c) ==
    IF clientID # "" THEN [c EXCEPT !.GoogleClientID = clientID] ELSE c

WithGoogleClientSecret(clientSecret, c) ==
    IF clientSecret # "" THEN [c EXCEPT !.GoogleClientSecret = clientSecret] ELSE c

(* opt(c): running the closure an option holds *)
ApplyOption(opt, c) ==
    CASE opt.name = "WithDatabaseURL" -> WithDatabaseURL(opt.arg, c)
      [] opt.name = "WithAuthServiceURL" -> WithAuthServiceURL(opt.arg, c)
      [] opt.name = "WithDebug" -> WithDebug(opt.flag, c)
      [] opt.name = "WithPort" -> WithPort(opt.arg, c)
      [] opt.name = "WithEnvFile" -> WithEnvFile(opt.arg, c)
      [] opt.name = "WithGoogleClientID" -> WithGoogleClientID(opt.arg, c)
      [] opt.name = "WithGoogleClientSecret" -> WithGoogleClientSecret(opt.arg, c)

(* for _, opt := range opts { opt(c) } *)
RECURSIVE ApplyOptions(_, _)
ApplyOptions(os, c) ==
    IF os = <<>> THEN c ELSE ApplyOptions(Tail(os), ApplyOption(Head(os), c))

----------------------------------------------------------------------------
(* The process environment *)

LookupEnv(env, key) ==
    IF key \in DOMAIN env THEN [value |-> env[key], exists |-> TRUE]
    ELSE [value |-> "", exists |-> FALSE]

Getenv(env, key) == IF key \in DOMAIN env THEN env[key] ELSE ""

----------------------------------------------------------------------------
(* strconv *)

ParseTrue == {"1", "t", "T", "TRUE", "true", "True"}

ParseFalse == {"0", "f", "F", "FALSE", "false", "False"}

ParseBool(s) ==
    IF s \in ParseTrue THEN [value |-> TRUE, err |-> FALSE]
    ELSE IF s \in ParseFalse THEN [value |-> FALSE, err |-> FALSE]
    ELSE [value |-> FALSE, err |-> TRUE]

FormatBool(b) == IF b THEN "true" ELSE "false"

----------------------------------------------------------------------------
(* The file system: directories searched upward from the package's source
   directory, and the .env files godotenv.Read may find *)

BasePath == "/go/mod"

Dir == [d \in {"/go/mod", "/go", "/"} |->
          IF d = "/go/mod" THEN "/go" ELSE "/"]

JoinEnv == [d \in {"/go/mod", "/go", "/"} |->
              IF d = "/go/mod" THEN "/go/mod/.env"
              ELSE IF d = "/go" THEN "/go/.env" ELSE "/.env"]

HintPath == "/etc/app.env"

VarPath == "/etc/alt.env"

SearchPaths == {"/go/mod/.env", "/go/.env", "/.env"}

AllPaths == {HintPath, VarPath} \cup SearchPaths

Absent == [kind |-> "absent", cause |-> "", envs |-> EmptyMap]

Bad(cause) == [kind |-> "bad", cause |-> cause, envs |-> EmptyMap]

Ok(m) == [kind |-> "ok", cause |-> "", envs |-> m]

Stat(files, path) == path \in DOMAIN files /\ files[path].kind # "absent"

(* godotenv.Read(envFile): the parsed file, or the error of opening or
   parsing it; isNotExist is what os.IsNotExist(err) answers *)
godotenvRead(files, path) ==
    IF ~Stat(files, path)
      THEN [envs |-> EmptyMap, err |-> <<"no such file or directory">>, isNotExist |-> TRUE]
    ELSE IF files[path].kind = "bad"
      THEN [envs |-> EmptyMap, err |-> <<files[path].cause>>, isNotExist |-> FALSE]
    ELSE [envs |-> files[path].envs, err |-> <<>>, isNotExist |-> FALSE]

RECURSIVE findEnvFilePath(_, _)
findEnvFilePath(files, dir) ==
    IF Stat(files, JoinEnv[dir]) THEN JoinEnv[dir]
    ELSE IF Dir[dir] = dir THEN ""
    ELSE findEnvFilePath(files, Dir[dir])

(* the path loadEnv reads: the hint, else $ENV_FILE, else the search *)
loadEnvPath(env, files, envFile) ==
    IF envFile # "" THEN envFile
    ELSE IF Getenv(env, "ENV_FILE") # "" THEN Getenv(env, "ENV_FILE")
    ELSE findEnvFilePath(files, BasePath)

(* loadEnv without the os.IsNotExist case: a missing file is an error *)
loadEnvStrict(env, files, envFile) ==
    LET r == godotenvRead(files, loadEnvPath(env, files, envFile)) IN
    IF r.err # <<>>
      THEN [envs |-> EmptyMap, err |-> <<"error reading .env file">> \o r.err]
      ELSE [envs |-> r.envs, err |-> <<>>]

(* loadEnv treating every read error as a missing file *)
loadEnvLenient(env, files, envFile) ==
    LET r == godotenvRead(files, loadEnvPath(env, files, envFile)) IN
    IF r.err # <<>>
      THEN [envs |-> EmptyMap, err |-> <<>>]
      ELSE [envs |-> r.envs, err |-> <<>>]

loadEnv(env, files, envFile) ==
    LET r == godotenvRead(files, loadEnvPath(env, files, envFile)) IN
    IF r.err # <<>>
      THEN IF r.isNotExist
             THEN [envs |-> EmptyMap, err |-> <<>>]
             ELSE [envs |-> EmptyMap, err |-> <<"error reading .env file">> \o r.err]
      ELSE [envs |-> r.envs, err |-> <<>>]

----------------------------------------------------------------------------
(* Resolution *)

(* getEnvWithFallback asking the process environment before the file *)
getEnvWithFallbackEnvFirst(env, envs, key, fallback) ==
    IF LookupEnv(env, key).exists /\ LookupEnv(env, key).value # ""
      THEN LookupEnv(env, key).value
    ELSE IF key \in DOMAIN envs /\ envs[key] # "" THEN envs[key]
    ELSE fallback

(* getEnvWithFallback taking a file entry that exists, empty or not *)
getEnvWithFallbackAnyEntry(env, envs, key, fallback) ==
    IF key \in DOMAIN envs THEN envs[key]
    ELSE IF LookupEnv(env, key).exists /\ LookupEnv(env, key).value # ""
      THEN LookupEnv(env, key).value
    ELSE fallback

getEnvWithFallback(env, envs, key, fallback) ==
    IF key \in DOMAIN envs /\ envs[key] # "" THEN envs[key]
    ELSE IF LookupEnv(env, key).exists /\ LookupEnv(env, key).value # ""
      THEN LookupEnv(env, key).value
    ELSE fallback

(* getBoolEnvWithFallback returning false, not the fallback, on a parse error *)
getBoolEnvWithFallbackFalse(env, envs, key, fallback) ==
    LET strValue == getEnvWithFallback(env, envs, key, FormatBool(fallback))
        parsed == ParseBool(strValue)
    IN IF parsed.err THEN FALSE ELSE parsed.value

(* getBoolEnvWithFallback trying the next source when one does not parse *)
getBoolEnvWithFallbackNextSource(env, envs, key, fallback) ==
    LET strValue == getEnvWithFallback(env, envs, key, FormatBool(fallback))
        parsed == ParseBool(strValue)
        next == ParseBool(getEnvWithFallback(env, EmptyMap, key, FormatBool(fallback)))
    IN IF ~parsed.err THEN parsed.value
       ELSE IF ~next.err THEN next.value
       ELSE fallback

getBoolEnvWithFallback(env, envs, key, fallback) ==
    LET strValue == getEnvWithFallback(env, envs, key, FormatBool(fallback))
        parsed == ParseBool(strValue)
    IN IF parsed.err THEN fallback ELSE parsed.value

(* validate checking DatabaseURL only *)
validateDatabaseOnly(c) ==
    IF c.DatabaseURL = "" THEN <<"DATABASE_URL is not set">>
    ELSE <<>>

(* validate checking AuthServiceURL first *)
validateAuthFirst(c) ==
    IF c.AuthServiceURL = "" THEN <<"AUTH_SERVICE_URL is not set">>
    ELSE IF c.DatabaseURL = "" THEN <<"DATABASE_URL is not set">>
    ELSE <<>>

validate(c) ==
    IF c.DatabaseURL = "" THEN <<"DATABASE_URL is not set">>
    ELSE IF c.AuthServiceURL = "" THEN <<"AUTH_SERVICE_URL is not set">>
    ELSE <<>>

(* lines 92-97: every field from file, environment, or what the options left *)
Resolved(env, envs, c) ==
    [DatabaseURL |-> getEnvWithFallback(env, envs, "DATABASE_URL", c.DatabaseURL),
     AuthServiceURL |-> getEnvWithFallback(env, envs, "AUTH_SERVICE_URL", c.AuthServiceURL),
     Debug |-> getBoolEnvWithFallback(env, envs, "DEBUG", c.Debug),
     Port |-> getEnvWithFallback(env, envs, "PORT", c.Port),
     EnvFile |-> c.EnvFile,
     GoogleClientID |-> getEnvWithFallback(env, envs, "GOOGLE_CLIENT_ID", c.GoogleClientID),
     GoogleClientSecret |->
         getEnvWithFallback(env, envs, "GOOGLE_CLIENT_SECRET", c.GoogleClientSecret)]

NewConfig(env, files, os) ==
    LET c == ApplyOptions(os, ZeroConfig)
        loaded == loadEnv(env, files, c.EnvFile)
        r == Resolved(env, loaded.envs, c)
    IN IF loaded.err # <<>>
         THEN [cfg |-> {}, err |-> <<"failed to load environment">> \o loaded.err]
       ELSE IF validate(r) # <<>>
         THEN [cfg |-> {}, err |-> validate(r)]
       ELSE [cfg |-> {r}, err |-> <<>>]

(* a NewConfig that unsets every variable it has read *)
EnvScrubbed(env) == [k \in {"ENV_FILE"} \cap DOMAIN env |-> env[k]]

(* NewConfig only reads the process environment (os.LookupEnv, os.Getenv)
   and only parses the file (godotenv.Read): both are as before the call *)
EnvAfterNewConfig(env) == env

----------------------------------------------------------------------------
(* The inputs explored.  The keys and the Config field each one feeds: *)

StringKeys ==
    {"DATABASE_URL", "AUTH_SERVICE_URL", "PORT", "GOOGLE_CLIENT_ID", "GOOGLE_CLIENT_SECRET"}

ConfigKeys == StringKeys \cup {"DEBUG"}

RequiredKeys == {"DATABASE_URL", "AUTH_SERVICE_URL"}

OptionOf ==
    [k \in ConfigKeys |->
        CASE k = "DATABASE_URL" -> "WithDatabaseURL"
          [] k = "AUTH_SERVICE_URL" -> "WithAuthServiceURL"
          [] k = "DEBUG" -> "WithDebug"
          [] k = "PORT" -> "WithPort"
          [] k = "GOOGLE_CLIENT_ID" -> "WithGoogleClientID"
          [] k = "GOOGLE_CLIENT_SECRET" -> "WithGoogleClientSecret"]

FileVals(k) == IF k = "DEBUG" THEN {"", "true", "0", "maybe"} ELSE {"", "fv"}

EnvVals(k) == IF k = "DEBUG" THEN {"", "true", "0", "maybe"} ELSE {"", "ev"}

OptionsFor(k) ==
    IF k = "DEBUG" THEN {Opt("WithDebug", "", b) : b \in BOOLEAN}
    ELSE {Opt(OptionOf[k], v, FALSE) : v \in {"", "o1", "o2"}}

RECURSIVE SeqsUpTo(_, _)
SeqsUpTo(S, n) ==
    IF n = 0 THEN {<<>>}
    ELSE SeqsUpTo(S, n - 1) \cup
         {Append(q, x) : q \in {r \in SeqsUpTo(S, n - 1) : Len(r) = n - 1}, x \in S}

RECURSIVE SetToSeq(_)
SetToSeq(S) ==
    IF S = {} THEN <<>>
    ELSE LET x == CHOOSE y \in S : TRUE IN <<x>> \o SetToSeq(S \ {x})

(* A field input: one key k gets a file entry fv, an environment variable ev
   and the overrides os; the required keys other than k get a value from the
   source bg, or none; the file is found through the hint, through $ENV_FILE
   or by the upward search. *)
FieldInput(k, fv, ev, os, bg, how) ==
    [opts |-> (IF how = "hint" THEN <<Opt("WithEnvFile", HintPath, FALSE)>> ELSE <<>>)
              \o (IF bg = "opts"
                    THEN SetToSeq({Opt(OptionOf[r], "bo", FALSE) : r \in RequiredKeys \ {k}})
                    ELSE <<>>)
              \o os,
     env |-> Merge(ev,
               Merge(IF bg = "env" THEN [r \in RequiredKeys \ {k} |-> "be"] ELSE EmptyMap,
                     IF how = "envvar" THEN Single("ENV_FILE", VarPath) ELSE EmptyMap)),
     fs |-> [p \in AllPaths |->
               IF p = (CASE how = "hint" -> HintPath
                         [] how = "envvar" -> VarPath
                         [] how = "search" -> "/go/.env")
                 THEN Ok(Merge(fv, IF bg = "file" THEN [r \in RequiredKeys \ {k} |-> "bf"]
                                   ELSE EmptyMap))
                 ELSE Absent]]

(* A path input: a hint, $ENV_FILE and files that are absent, unreadable or
   readable at the five paths; a readable file names its own path as PORT.
   The required keys come from the environment, from overrides, or from
   nowhere. *)
PathInput(hint, var, files, bg) ==
    [opts |-> hint \o (IF bg = "opts"
                         THEN <<Opt("WithDatabaseURL", "bo", FALSE),
                                Opt("WithAuthServiceURL", "bo", FALSE)>>
                         ELSE <<>>),
     env |-> Merge(var, IF bg = "env" THEN [r \in RequiredKeys |-> "be"] ELSE EmptyMap),
     fs |-> [p \in AllPaths |->
               CASE files[p] = "absent" -> Absent
                 [] files[p] = "bad" ->
                      Bad(IF p \in SearchPaths THEN "permission denied"
                          ELSE "unexpected character in variable name")
                 [] files[p] = "ok" -> Ok(Single("PORT", p))]]

----------------------------------------------------------------------------
(* The state machine: a host process calls NewConfig at startup, and may
   call it again with the same arguments. *)

NoResult == [cfg |-> {}, err |-> <<>>]

(* the inputs of a run *)
Given(i) ==
    /\ opts = i.opts
    /\ osEnv = i.env
    /\ fs = i.fs

Init ==
    /\ \/ \E k \in ConfigKeys :
             \E fv \in {EmptyMap} \cup {Single(k, v) : v \in FileVals(k)},
                ev \in {EmptyMap} \cup {Single(k, v) : v \in EnvVals(k)},
                os \in SeqsUpTo(OptionsFor(k), MaxOpts),
                bg \in {"none", "file", "env", "opts"},
                how \in {"hint", "envvar", "search"} :
                  Given(FieldInput(k, fv, ev, os, bg, how))
       \/ \E hint \in {<<>>, <<Opt("WithEnvFile", "", FALSE)>>,
                        <<Opt("WithEnvFile", HintPath, FALSE)>>},
             var \in {EmptyMap, Single("ENV_FILE", ""), Single("ENV_FILE", VarPath)},
             files \in [AllPaths -> {"absent", "bad", "ok"}],
             bg \in {"none", "env", "opts"} :
               Given(PathInput(hint, var, files, bg))
    /\ result = NoResult
    /\ prev = NoResult
    /\ calls = 0

(* cfg, err := NewConfig(opts...) *)
Call ==
    /\ calls = 0
    /\ result' = NewConfig(osEnv, fs, opts)
    /\ osEnv' = EnvAfterNewConfig(osEnv)
    /\ calls' = 1
    /\ UNCHANGED <<fs, opts, prev>>

(* the same call once more, nothing else having run in between *)
CallAgain ==
    /\ calls >= 1
    /\ calls < MaxCalls
    /\ prev' = result
    /\ result' = NewConfig(osEnv, fs, opts)
    /\ osEnv' = EnvAfterNewConfig(osEnv)
    /\ calls' = calls + 1
    /\ UNCHANGED <<fs, opts>>

Next == Call \/ CallAgain

Spec == Init /\ [][Next]_vars

----------------------------------------------------------------------------
(* Vocabulary of the properties, stated on the inputs and the outcome *)

Called == calls >= 1

Succeeded == Called /\ result.cfg # {} /\ result.err = <<>>

TheConfig == CHOOSE c \in result.cfg : TRUE

Field(c, k) ==
    CASE k = "DATABASE_URL" -> c.DatabaseURL
      [] k = "AUTH_SERVICE_URL" -> c.AuthServiceURL
      [] k = "PORT" -> c.Port
      [] k = "GOOGLE_CLIENT_ID" -> c.GoogleClientID
      [] k = "GOOGLE_CLIENT_SECRET" -> c.GoogleClientSecret

(* the argument of the last option `name` whose argument is non-empty, else "" *)
RECURSIVE LastArg(_, _)
LastArg(os, name) ==
    IF os = <<>> THEN ""
    ELSE LET last == os[Len(os)] IN
         IF last.name = name /\ last.arg # "" THEN last.arg
         ELSE LastArg(SubSeq(os, 1, Len(os) - 1), name)

(* the argument of the last WithDebug, else FALSE *)
RECURSIVE LastFlag(_)
LastFlag(os) ==
    IF os = <<>> THEN FALSE
    ELSE LET last == os[Len(os)] IN
         IF last.name = "WithDebug" THEN last.flag
         ELSE LastFlag(SubSeq(os, 1, Len(os) - 1))

(* the path of the file that is read, and what is there *)
ReadPath == loadEnvPath(osEnv, fs, LastArg(opts, "WithEnvFile"))

FileMissing == ReadPath = "" \/ fs[ReadPath].kind = "absent"

FileUnreadable == ReadPath # "" /\ fs[ReadPath].kind = "bad"

FileMapping == IF FileMissing \/ FileUnreadable THEN EmptyMap ELSE fs[ReadPath].envs

InFile(k) == k \in DOMAIN FileMapping /\ FileMapping[k] # ""

InEnv(k) == k \in DOMAIN osEnv /\ osEnv[k] # ""

(* some source gives the string key a non-empty value *)
HasSource(k) == InFile(k) \/ InEnv(k) \/ LastArg(opts, OptionOf[k]) # ""

(* the DEBUG text that is parsed, if any: the file's, else the environment's *)
DebugCandidate ==
    IF InFile("DEBUG") THEN FileMapping["DEBUG"]
    ELSE IF InEnv("DEBUG") THEN osEnv["DEBUG"]
    ELSE ""

Parseable(s) == s \in ParseTrue \cup ParseFalse

----------------------------------------------------------------------------
(* C1: whenever NewConfig returns a Config and no error, its DatabaseURL and
   its AuthServiceURL are both non-empty. *)
C1_RequiredNonEmpty ==
    result.cfg # {} =>
        /\ TheConfig.DatabaseURL # ""
        /\ TheConfig.AuthServiceURL # ""

C1_Witness ==
    /\ Succeeded
    /\ TheConfig.DatabaseURL = "o2"
    /\ TheConfig.AuthServiceURL = "be"

(* C2: for every string field, a non-empty file entry for its key is the
   resolved value, whatever the environment variable and the overrides. *)
C2_FileWins ==
    \A k \in StringKeys :
        (Succeeded /\ InFile(k)) => Field(TheConfig, k) = FileMapping[k]

C2_Witness ==
    /\ Succeeded
    /\ \E k \in StringKeys :
          /\ InFile(k) /\ InEnv(k) /\ LastArg(opts, OptionOf[k]) # ""
          /\ osEnv[k] # FileMapping[k]
          /\ Field(TheConfig, k) = FileMapping[k]

(* C3: for every string field whose key has no file entry, or an empty one,
   a non-empty environment variable of that key is the resolved value, even
   when a non-empty override was given. *)
C3_EnvWinsOverOverride ==
    \A k \in StringKeys :
        (Succeeded /\ ~InFile(k) /\ InEnv(k)) => Field(TheConfig, k) = osEnv[k]

C3_Witness ==
    /\ Succeeded
    /\ \E k \in StringKeys :
          /\ k \in DOMAIN FileMapping /\ FileMapping[k] = ""
          /\ InEnv(k) /\ LastArg(opts, OptionOf[k]) # ""
          /\ Field(TheConfig, k) = osEnv[k]

(* C4: a field with neither a non-empty file entry nor a non-empty
   environment variable resolves to what the overrides left: for a string
   field the argument of the last override of that field with a non-empty
   argument, for Debug the argument of the last WithDebug, and the zero
   value when there is none; an override changes no field but its own. *)
C4_OverridesInOrder ==
    Succeeded =>
        /\ \A k \in StringKeys :
              (~InFile(k) /\ ~InEnv(k)) =>
                  Field(TheConfig, k) = LastArg(opts, OptionOf[k])
        /\ (~InFile("DEBUG") /\ ~InEnv("DEBUG")) => TheConfig.Debug = LastFlag(opts)
        /\ TheConfig.EnvFile = LastArg(opts, "WithEnvFile")

C4_Witness ==
    /\ Succeeded
    /\ ~InFile("PORT") /\ ~InEnv("PORT")
    /\ \E i \in 1..(Len(opts) - 1) :
          /\ opts[i] = Opt("WithPort", "o1", FALSE)
          /\ opts[i + 1] = Opt("WithPort", "", FALSE)
    /\ TheConfig.Port = "o1"
    /\ TheConfig.GoogleClientID = ""

(* C5: when the file loads (or is missing) and DatabaseURL resolves to
   empty, NewConfig fails with the error naming DATABASE_URL, also when
   AuthServiceURL is empty too, as it is with no overrides, no file and no
   environment variables; when only AuthServiceURL resolves to empty the
   error names AUTH_SERVICE_URL. *)
C5_MissingRequiredField ==
    (Called /\ ~FileUnreadable) =>
        /\ ~HasSource("DATABASE_URL") =>
              result = [cfg |-> {}, err |-> <<"DATABASE_URL is not set">>]
        /\ (HasSource("DATABASE_URL") /\ ~HasSource("AUTH_SERVICE_URL")) =>
              result = [cfg |-> {}, err |-> <<"AUTH_SERVICE_URL is not set">>]

C5_Witness ==
    /\ Called
    /\ opts = <<>> /\ FileMissing /\ \A k \in ConfigKeys : k \notin DOMAIN osEnv
    /\ result.err = <<"DATABASE_URL is not set">>

(* C6: when the path to read is empty or names no file, loading yields an
   empty mapping and no error, and resolution goes on from the environment
   and the overrides: with DATABASE_URL and AUTH_SERVICE_URL non-empty in the
   environment, no other configuration variable set and no options, NewConfig
   returns those two values and the zero value in every other field. *)
C6_MissingFileIsNoError ==
    (Called /\ FileMissing) =>
        /\ loadEnv(osEnv, fs, LastArg(opts, "WithEnvFile")) = [envs |-> EmptyMap, err |-> <<>>]
        /\ result.err # <<>> => Len(result.err) = 1
        /\ ( /\ opts = <<>>
             /\ InEnv("DATABASE_URL") /\ InEnv("AUTH_SERVICE_URL")
             /\ \A k \in ConfigKeys \ RequiredKeys : ~InEnv(k) )
           => result = [cfg |-> {[ZeroConfig EXCEPT !.DatabaseURL = osEnv["DATABASE_URL"],
                                                    !.AuthServiceURL = osEnv["AUTH_SERVICE_URL"]]},
                        err |-> <<>>]

C6_Witness ==
    /\ Succeeded
    /\ ReadPath = VarPath /\ fs[VarPath].kind = "absent"
    /\ fs["/go/.env"].kind = "ok"
    /\ opts = <<>>
    /\ TheConfig.DatabaseURL = "be" /\ TheConfig.Port = ""

(* C7: when the file to read exists but cannot be read or parsed, NewConfig
   returns no Config and the load error wrapping the cause, whether or not
   the required fields have a source. *)
C7_LoadErrorAborts ==
    (Called /\ FileUnreadable) =>
        result = [cfg |-> {},
                  err |-> <<"failed to load environment", "error reading .env file",
                            fs[ReadPath].cause>>]

C7_Witness ==
    /\ Called /\ FileUnreadable
    /\ HasSource("DATABASE_URL") /\ HasSource("AUTH_SERVICE_URL")
    /\ result.cfg = {}
    /\ result.err[3] = "permission denied"

(* C8: a DEBUG text that does not parse never makes NewConfig fail; with
   such a text in the file and no DEBUG environment variable, Debug is the
   argument of the last WithDebug, and false when there is none. *)
C8_InvalidBoolIgnored ==
    (Called /\ ~FileUnreadable /\ DebugCandidate # "" /\ ~Parseable(DebugCandidate)) =>
        /\ (HasSource("DATABASE_URL") /\ HasSource("AUTH_SERVICE_URL")) => Succeeded
        /\ ~Succeeded => result.err \in {<<"DATABASE_URL is not set">>,
                                         <<"AUTH_SERVICE_URL is not set">>}
        /\ (Succeeded /\ InFile("DEBUG") /\ "DEBUG" \notin DOMAIN osEnv) =>
              TheConfig.Debug = LastFlag(opts)

C8_Witness ==
    /\ Succeeded
    /\ InFile("DEBUG") /\ ~Parseable(FileMapping["DEBUG"])
    /\ "DEBUG" \notin DOMAIN osEnv
    /\ LastFlag(opts)
    /\ TheConfig.Debug

(* C9: a second NewConfig call with the same options, the same files and
   the same environment returns what the first returned: an equal Config,
   or the same error. *)
C9_SameInputsSameOutcome ==
    calls >= 2 => result = prev

C9_Witness ==
    /\ calls >= 2
    /\ Succeeded
    /\ InEnv("PORT") /\ TheConfig.Port = "ev"

(* C10 as claimed: Debug falls through from an unparseable file entry to a
   parseable DEBUG environment variable. *)
C10_FallsThroughToEnv ==
    (Succeeded /\ InFile("DEBUG") /\ ~Parseable(FileMapping["DEBUG"])
       /\ InEnv("DEBUG") /\ Parseable(osEnv["DEBUG"]))
      => TheConfig.Debug = ParseBool(osEnv["DEBUG"]).value

(* C10, amended: one DEBUG text is parsed, the file entry when it is
   non-empty, else the environment variable when it is non-empty; Debug is
   its value when it parses, and the override/default value (the last
   WithDebug, else false) when it does not parse or there is none, also when
   the text is the file's and the environment variable would parse. *)
C10_OneCandidateThenFallback ==
    Succeeded =>
        TheConfig.Debug = (IF Parseable(DebugCandidate)
                             THEN DebugCandidate \in ParseTrue
                             ELSE LastFlag(opts))

C10_Witness ==
    /\ Succeeded
    /\ InFile("DEBUG") /\ ~Parseable(FileMapping["DEBUG"])
    /\ InEnv("DEBUG") /\ osEnv["DEBUG"] \in ParseTrue
    /\ ~LastFlag(opts)
    /\ ~TheConfig.Debug

====
